---- MODULE Spec2Model ----
(***************************************************************************)
(* State-machine model of streamlit_app.py: one top-to-bottom run of the   *)
(* Lahore AQI dashboard script (live fetch, model load, feature-name       *)
(* resolution, 30-day synthetic forecast, summary).                        *)
(*                                                                         *)
(* Numbers sampled by synthesize_value are kept in tenths (0.1 -> 1,       *)
(* 40 -> 400), so that the CO range 0.1..4 stays integral.  Strings that   *)
(* the code inspects character by character (feature names) are tuples of  *)
(* one-character strings.  Calendar dates are day numbers.                 *)
(***************************************************************************)
EXTENDS Integers, Sequences, FiniteSets, TLC

VARIABLES
    pc,              \* position of the script
    error,           \* what halted the run ("" while running)
    today,           \* datetime.now().date(), as a day number
    startDate,       \* the date when the process started
    midnight,        \* has midnight passed since process start?
    server,          \* what the feed will answer to this run's request
    response,        \* what requests.get(url).json() produced
    live_aqi,        \* module-level live_aqi
    iaqi,            \* module-level iaqi
    modelFile,       \* model_registry/rf_model.joblib on disk
    manifestFile,    \* model_registry/feature_columns.json on disk
    model,           \* the deserialized model
    feature_columns, \* module-level feature_columns
    resolved,        \* which source supplied feature_columns
    rng,             \* state of numpy's global pseudo-random generator
    i,               \* loop variable of the forecast loop
    calls,           \* np.random.uniform calls made for the current row
    vals,            \* the feature row built for the current day
    dates,           \* module-level dates
    preds,           \* module-level preds
    summary,         \* avg / hi / lo metrics
    netCalls,        \* number of HTTP requests issued
    loadCalls,       \* number of joblib.load calls
    rowsBuilt,       \* number of feature rows built
    predictCalls     \* number of model.predict calls

vars == <<pc, error, today, startDate, midnight, server, response, live_aqi, iaqi,
          modelFile, manifestFile, model, feature_columns, resolved, rng, i,
          calls, vals, dates, preds, summary, netCalls, loadCalls, rowsBuilt,
          predictCalls>>

\* ---------------------------------------------------------------- bounds
MaxSeed == 1
RngMod == 16

\* ------------------------------------------------------ program constants
FALLBACK == 160
Days == 30

\* ------------------------------------------------------- python values
None == [t |-> "None", v |-> 0]
PyInt(n) == [t |-> "int", v |-> n]
\* Python truthiness of None / an int
Truthy(x) == x.t = "int" /\ x.v # 0

Range(s) == {s[k] : k \in 1..Len(s)}

\* ------------------------------------------------------- HTTP responses
AqiValues == {0, 42, 160}
IaqiValues == { {}, {<<"pm25", 80>>, <<"o3", 12>>} }

NoResponse ==
    [kind |-> "none", status |-> "missing", data |-> "missing",
     hasAqi |-> FALSE, aqi |-> 0, hasIaqi |-> FALSE, iaqi |-> {}]

Responses ==
    \* requests.get raises / body is not a JSON object
    { [NoResponse EXCEPT !.kind = k] : k \in {"exception", "nonobject"} }
    \* JSON object without "ok" status
    \cup { [NoResponse EXCEPT !.kind = "object", !.status = s] :
             s \in {"error", "missing"} }
    \* "ok" but data absent or not an object
    \cup { [NoResponse EXCEPT !.kind = "object", !.status = "ok", !.data = d] :
             d \in {"missing", "nonobject"} }
    \* "ok" with a data object lacking aqi
    \cup { [NoResponse EXCEPT !.kind = "object", !.status = "ok",
                              !.data = "object", !.hasIaqi = TRUE, !.iaqi = m] :
             m \in IaqiValues }
    \* "ok" with aqi, iaqi absent
    \cup { [NoResponse EXCEPT !.kind = "object", !.status = "ok",
                              !.data = "object", !.hasAqi = TRUE, !.aqi = a] :
             a \in AqiValues }
    \* "ok" with aqi and iaqi
    \cup { [NoResponse EXCEPT !.kind = "object", !.status = "ok",
                              !.data = "object", !.hasAqi = TRUE, !.aqi = a,
                              !.hasIaqi = TRUE, !.iaqi = m] :
             a \in AqiValues, m \in IaqiValues }

\* fetch_live_aqi with  data.get("iaqi", {})  replaced by  {}
fetch_live_aqi_DropIaqi(resp) ==
    IF resp.kind # "object" THEN <<None, {}>>
    ELSE IF resp.status = "ok"
         THEN IF resp.data # "object" \/ ~resp.hasAqi THEN <<None, {}>>
              ELSE <<PyInt(resp.aqi), {}>>
         ELSE <<None, {}>>

\* fetch_live_aqi(): the pair it returns for a given HTTP outcome.  Every
\* exception raised inside the try block ends in "return None, {}".
fetch_live_aqi(resp) ==
    IF resp.kind # "object" THEN <<None, {}>>
    ELSE IF resp.status = "ok"
         THEN IF resp.data # "object" \/ ~resp.hasAqi THEN <<None, {}>>
              ELSE <<PyInt(resp.aqi), IF resp.hasIaqi THEN resp.iaqi ELSE {}>>
         ELSE <<None, {}>>

\* ------------------------------------------------------------ the files
NamesA == << <<"p","m","2","_","5">>, <<"p","m","1","0">>, <<"n","o","2">>,
             <<"o","3">>, <<"s","o","2">>, <<"c","o">> >>
NamesAPermuted == << <<"c","o">>, <<"s","o","2">>, <<"o","3">>,
                     <<"n","o","2">>, <<"p","m","1","0">>,
                     <<"p","m","2","_","5">> >>
NamesB == << <<"t","e","m","p">>, <<"h","u","m","i","d">>,
             <<"h","u","m","i","d","i","t","y">>, <<"w","i","n","d">>,
             <<"T">>, <<"H","R">> >>
NamesC == << <<"P","M","1","0">>, <<"p","m","1","0","_","p","m","2","5">>,
             <<"N","O","2","_","c","o","n","c">>, <<"r","a","i","n">>,
             <<"d","a","y">>, <<"O","3">> >>

NoFile == [exists |-> FALSE, names |-> <<>>, n |-> 0]
\* a model fitted on a DataFrame records feature_names_in_; one fitted on a
\* bare array records only n_features_in_ (names = <<>>)
ModelA == [exists |-> TRUE, names |-> NamesA, n |-> Len(NamesA)]
ModelB == [exists |-> TRUE, names |-> NamesB, n |-> Len(NamesB)]
ModelUnnamed == [exists |-> TRUE, names |-> <<>>, n |-> Len(NamesB)]

NoManifest == [exists |-> FALSE, valid |-> FALSE, cols |-> <<>>]
BadManifest == [exists |-> TRUE, valid |-> FALSE, cols |-> <<>>]
Manifest(cols) == [exists |-> TRUE, valid |-> TRUE, cols |-> cols]
\* the pairs (model file, manifest file) found on disk
FilePairs ==
    { <<NoFile, NoManifest>>, <<NoFile, Manifest(NamesA)>>,
      <<ModelA, NoManifest>>, <<ModelA, BadManifest>>,
      <<ModelA, Manifest(NamesA)>>, <<ModelA, Manifest(NamesAPermuted)>>,
      <<ModelA, Manifest(NamesB)>>, <<ModelA, Manifest(NamesC)>>,
      <<ModelB, NoManifest>>,
      <<ModelUnnamed, NoManifest>>, <<ModelUnnamed, Manifest(NamesB)>> }

\* The environments of a run.  fetch_live_aqi reads nothing but the feed and
\* the loader nothing but the two files, so the feed's answers are all tried
\* against one pair of files, and all pairs of files against one answer.
BaseResponse ==
    [NoResponse EXCEPT !.kind = "object", !.status = "ok", !.data = "object",
                       !.hasAqi = TRUE, !.aqi = 42, !.hasIaqi = TRUE,
                       !.iaqi = {<<"pm25", 80>>, <<"o3", 12>>}]
Environments ==
    { <<r, ModelA, NoManifest>> : r \in Responses }
    \cup { <<BaseResponse, p[1], p[2]>> : p \in FilePairs }

NoModel == [loaded |-> FALSE, names |-> <<>>, n |-> 0]

\* ------------------------------------------------------------ the sampler
UpperToLower ==
    [A |-> "a", B |-> "b", C |-> "c", D |-> "d", E |-> "e", F |-> "f",
     G |-> "g", H |-> "h", I |-> "i", J |-> "j", K |-> "k", L |-> "l",
     M |-> "m", N |-> "n", O |-> "o", P |-> "p", Q |-> "q", R |-> "r",
     S |-> "s", T |-> "t", U |-> "u", V |-> "v", W |-> "w", X |-> "x",
     Y |-> "y", Z |-> "z"]

UpperCase == DOMAIN UpperToLower

\* str.lower()
lower(s) ==
    [k \in 1..Len(s) |->
        IF s[k] \in UpperCase THEN UpperToLower[s[k]] ELSE s[k]]

\* Python's  t in s  on strings
In(t, s) ==
    \E k \in 0..(Len(s) - Len(t)) : \A j \in 1..Len(t) : s[k + j] = t[j]

\* UniformArgs with the "pm10" test moved in front of the "pm2" test
UniformArgs_Pm10First(col) ==
    LET c == lower(col) IN
    IF In(<<"p","m","1","0">>, c) THEN <<500, 2500>>
    ELSE IF In(<<"p","m","2">>, c) THEN <<400, 1800>>
    ELSE IF In(<<"n","o","2">>, c) THEN <<100, 1200>>
    ELSE IF In(<<"o","3">>, c) THEN <<100, 1000>>
    ELSE IF In(<<"s","o","2">>, c) THEN <<50, 800>>
    ELSE IF In(<<"c","o">>, c) THEN <<1, 40>>
    ELSE IF In(<<"t","e","m","p">>, c) \/ In(<<"t">>, c) THEN <<100, 400>>
    ELSE IF In(<<"h","u","m","i","d">>, c) \/ In(<<"h">>, c) THEN <<200, 800>>
    ELSE <<0, 1000>>

\* the (low, high) arguments synthesize_value hands to np.random.uniform
UniformArgs(col) ==
    LET c == lower(col) IN
    IF In(<<"p","m","2">>, c) THEN <<400, 1800>>
    ELSE IF In(<<"p","m","1","0">>, c) THEN <<500, 2500>>
    ELSE IF In(<<"n","o","2">>, c) THEN <<100, 1200>>
    ELSE IF In(<<"o","3">>, c) THEN <<100, 1000>>
    ELSE IF In(<<"s","o","2">>, c) THEN <<50, 800>>
    ELSE IF In(<<"c","o">>, c) THEN <<1, 40>>
    ELSE IF In(<<"t","e","m","p">>, c) \/ In(<<"t">>, c) THEN <<100, 400>>
    ELSE IF In(<<"h","u","m","i","d">>, c) \/ In(<<"h">>, c) THEN <<200, 800>>
    ELSE <<0, 1000>>

\* one step of the pseudo-random generator
NextRng(r) == (5 * r + 3) % RngMod

RECURSIVE RngAfter(_, _)
RngAfter(r, n) == IF n = 0 THEN r ELSE RngAfter(NextRng(r), n - 1)

\* np.random.uniform(low, high) for generator output u: a value in [low, high)
uniform(low, high, u) == low + (u * (high - low)) \div RngMod

\* one call of synthesize_value, with the arguments and the result of the
\* np.random.uniform call it makes
SampleCall(col, u) ==
    LET a == UniformArgs(col)
    IN [col |-> col, low |-> a[1], high |-> a[2], val |-> uniform(a[1], a[2], u)]

synthesize_value(col, u) == SampleCall(col, u).val

\* the calls made while evaluating {c: synthesize_value(c) for c in cols}
RowCalls(cols, r) ==
    [k \in 1..Len(cols) |->
        SampleCall(cols[k], RngAfter(r, k))]

\* the dict the comprehension builds (a later duplicate key overwrites)
RowDict(cs) ==
    [c \in {cs[k].col : k \in 1..Len(cs)} |->
        cs[CHOOSE k \in 1..Len(cs) :
              cs[k].col = c /\ \A j \in (k + 1)..Len(cs) : cs[j].col # c].val]

\* ------------------------------------------------------------- the model
RECURSIVE SumOver(_, _)
SumOver(f, S) ==
    IF S = {} THEN 0
    ELSE LET c == CHOOSE x \in S : TRUE IN f[c] + SumOver(f, S \ {c})

\* model.predict(X)[0]: the regressor is opaque; a pure function of the row
Predict(m, X) == SumOver(X, DOMAIN X) \div Cardinality(DOMAIN X)

\* can model.predict(X) raise?  A wrong number of columns always does; names
\* that differ from feature_names_in_ (composition or order) raise or only
\* warn, depending on the installed estimator library.
PredictOutcomes(m, cols, X) ==
    IF Cardinality(DOMAIN X) # m.n THEN {"raise"}
    ELSE IF m.names # <<>> /\ m.names # cols THEN {"ok", "raise"}
    ELSE {"ok"}

\* ------------------------------------------------------------------ Init
Init ==
    /\ pc = "fetch"
    /\ error = ""
    /\ today = 0
    /\ startDate = 0
    /\ midnight = FALSE
    /\ \E e \in Environments :
          /\ server = e[1]
          /\ modelFile = e[2]
          /\ manifestFile = e[3]
    /\ response = NoResponse
    /\ live_aqi = None
    /\ iaqi = {}
    /\ model = NoModel
    /\ feature_columns = <<>>
    /\ resolved = "none"
    /\ rng \in 0..MaxSeed
    /\ i = 0
    /\ calls = <<>>
    /\ vals = <<>>
    /\ dates = <<>>
    /\ preds = <<>>
    /\ summary = <<>>
    /\ netCalls = 0
    /\ loadCalls = 0
    /\ rowsBuilt = 0
    /\ predictCalls = 0

\* --------------------------------------------------------------- actions
\* midnight passes while the script runs (a run lasts seconds: at most one
\* midnight falls inside it)
Tick ==
    /\ pc \notin {"done", "stopped", "crashed"}
    /\ ~midnight
    /\ today' = today + 1
    /\ midnight' = TRUE
    /\ UNCHANGED <<pc, error, startDate, server, response, live_aqi, iaqi, modelFile,
                   manifestFile, model, feature_columns, resolved, rng, i,
                   calls, vals, dates, preds, summary, netCalls, loadCalls,
                   rowsBuilt, predictCalls>>

\* live_aqi, iaqi = fetch_live_aqi()
FetchLiveAqi ==
    /\ pc = "fetch"
    /\ response' = server
    /\ live_aqi' = fetch_live_aqi(server)[1]
    /\ iaqi' = fetch_live_aqi(server)[2]
    /\ netCalls' = netCalls + 1
    /\ pc' = "fallback"
    /\ UNCHANGED <<error, today, startDate, midnight, server, modelFile,
                   manifestFile, model, feature_columns, resolved, rng, i,
                   calls, vals, dates, preds, summary, loadCalls, rowsBuilt,
                   predictCalls>>

\* LiveAqiFallback halting the run when the live reading is unavailable
LiveAqiFallback_Halts ==
    /\ pc = "fallback"
    /\ IF Truthy(live_aqi)
       THEN pc' = "checkmodel" /\ UNCHANGED error
       ELSE pc' = "stopped" /\ error' = "live AQI unavailable"
    /\ UNCHANGED <<today, startDate, midnight, server, response, live_aqi,
                   iaqi, modelFile, manifestFile, model, feature_columns,
                   resolved, rng, i, calls, vals, dates, preds, summary,
                   netCalls, loadCalls, rowsBuilt, predictCalls>>

\* if live_aqi: ... else: live_aqi = 160
LiveAqiFallback ==
    /\ pc = "fallback"
    /\ live_aqi' = IF Truthy(live_aqi) THEN live_aqi ELSE PyInt(FALLBACK)
    /\ pc' = "checkmodel"
    /\ UNCHANGED <<error, today, startDate, midnight, server, response, iaqi, modelFile,
                   manifestFile, model, feature_columns, resolved, rng, i,
                   calls, vals, dates, preds, summary, netCalls, loadCalls,
                   rowsBuilt, predictCalls>>

\* ModelMissing without st.stop(): the script goes on to joblib.load, which
\* raises on the missing file
ModelMissing_NoStop ==
    /\ pc = "checkmodel"
    /\ ~modelFile.exists
    /\ loadCalls' = loadCalls + 1
    /\ pc' = "crashed"
    /\ error' = "joblib.load raised"
    /\ UNCHANGED <<today, startDate, midnight, server, response, live_aqi,
                   iaqi, modelFile, manifestFile, model, feature_columns,
                   resolved, rng, i, calls, vals, dates, preds, summary,
                   netCalls, rowsBuilt, predictCalls>>

\* if not os.path.exists(MODEL_PATH): st.error(...); st.stop()
ModelMissing ==
    /\ pc = "checkmodel"
    /\ ~modelFile.exists
    /\ pc' = "stopped"
    /\ error' = "model file not found"
    /\ UNCHANGED <<today, startDate, midnight, server, response, live_aqi, iaqi,
                   modelFile, manifestFile, model, feature_columns, resolved,
                   rng, i, calls, vals, dates, preds, summary, netCalls,
                   loadCalls, rowsBuilt, predictCalls>>

\* model = joblib.load(MODEL_PATH)
LoadModel ==
    /\ pc = "checkmodel"
    /\ modelFile.exists
    /\ model' = [loaded |-> TRUE, names |-> modelFile.names, n |-> modelFile.n]
    /\ loadCalls' = loadCalls + 1
    /\ pc' = "features"
    /\ UNCHANGED <<error, today, startDate, midnight, server, response, live_aqi, iaqi,
                   modelFile, manifestFile, feature_columns, resolved, rng, i,
                   calls, vals, dates, preds, summary, netCalls, rowsBuilt,
                   predictCalls>>

\* ResolveFromManifest trying the model's recorded names before the manifest
ResolveFromManifest_IntrospectFirst ==
    /\ pc = "features"
    /\ manifestFile.exists
    /\ IF model.names # <<>>
       THEN /\ feature_columns' = model.names
            /\ resolved' = "introspection"
            /\ pc' = "loop"
            /\ i' = 1
            /\ UNCHANGED error
       ELSE IF manifestFile.valid
       THEN /\ feature_columns' = manifestFile.cols
            /\ resolved' = "manifest"
            /\ pc' = "loop"
            /\ i' = 1
            /\ UNCHANGED error
       ELSE /\ pc' = "crashed"
            /\ error' = "json.load raised"
            /\ UNCHANGED <<feature_columns, resolved, i>>
    /\ UNCHANGED <<today, startDate, midnight, server, response, live_aqi,
                   iaqi, modelFile, manifestFile, model, rng, calls, vals,
                   dates, preds, summary, netCalls, loadCalls, rowsBuilt,
                   predictCalls>>

\* if os.path.exists(FEATURE_PATH): feature_columns = json.load(f)
\* (json.load on a malformed file raises, uncaught)
ResolveFromManifest ==
    /\ pc = "features"
    /\ manifestFile.exists
    /\ IF manifestFile.valid
       THEN /\ feature_columns' = manifestFile.cols
            /\ resolved' = "manifest"
            /\ pc' = "loop"
            /\ i' = 1
            /\ UNCHANGED error
       ELSE /\ pc' = "crashed"
            /\ error' = "json.load raised"
            /\ UNCHANGED <<feature_columns, resolved, i>>
    /\ UNCHANGED <<today, startDate, midnight, server, response, live_aqi, iaqi,
                   modelFile, manifestFile, model, rng, calls, vals, dates,
                   preds, summary, netCalls, loadCalls, rowsBuilt,
                   predictCalls>>

\* else: try: feature_columns = list(model.feature_names_in_)
ResolveFromModel ==
    /\ pc = "features"
    /\ ~manifestFile.exists
    /\ model.names # <<>>
    /\ feature_columns' = model.names
    /\ resolved' = "introspection"
    /\ pc' = "loop"
    /\ i' = 1
    /\ UNCHANGED <<error, today, startDate, midnight, server, response, live_aqi, iaqi,
                   modelFile, manifestFile, model, rng, calls, vals, dates,
                   preds, summary, netCalls, loadCalls, rowsBuilt,
                   predictCalls>>

\* except Exception: st.error(...); st.stop()
ResolveFatal ==
    /\ pc = "features"
    /\ ~manifestFile.exists
    /\ model.names = <<>>
    /\ pc' = "stopped"
    /\ error' = "could not determine model feature names"
    /\ UNCHANGED <<today, startDate, midnight, server, response, live_aqi, iaqi,
                   modelFile, manifestFile, model, feature_columns, resolved,
                   rng, i, calls, vals, dates, preds, summary, netCalls,
                   loadCalls, rowsBuilt, predictCalls>>

\* ForecastStep calling model.predict a second time on the same row when the
\* first call raises
ForecastStep_Retry ==
    /\ pc = "loop"
    /\ i <= Days
    /\ LET cs == RowCalls(feature_columns, rng)
           X == RowDict(cs)
       IN /\ calls' = cs
          /\ vals' = X
          /\ rng' = RngAfter(rng, Len(feature_columns))
          /\ rowsBuilt' = rowsBuilt + 1
          /\ \E out \in PredictOutcomes(model, feature_columns, X) :
                IF out = "ok"
                THEN /\ predictCalls' = predictCalls + 1
                     /\ preds' = Append(preds, Predict(model, X))
                     /\ dates' = Append(dates, today + i)
                     /\ i' = i + 1
                     /\ pc' = IF i = Days THEN "render" ELSE "loop"
                     /\ UNCHANGED error
                ELSE /\ predictCalls' = predictCalls + 2
                     /\ pc' = "crashed"
                     /\ error' = "model.predict raised"
                     /\ UNCHANGED <<preds, dates, i>>
    /\ UNCHANGED <<today, startDate, midnight, server, response, live_aqi,
                   iaqi, modelFile, manifestFile, model, feature_columns,
                   resolved, summary, netCalls, loadCalls>>

\* one iteration of  for i in range(1, 31)
ForecastStep ==
    /\ pc = "loop"
    /\ i <= Days
    /\ LET cs == RowCalls(feature_columns, rng)
           X == RowDict(cs)
       IN /\ calls' = cs
          /\ vals' = X
          /\ rng' = RngAfter(rng, Len(feature_columns))
          /\ rowsBuilt' = rowsBuilt + 1
          /\ predictCalls' = predictCalls + 1
          /\ \E out \in PredictOutcomes(model, feature_columns, X) :
                IF out = "ok"
                THEN /\ preds' = Append(preds, Predict(model, X))
                     /\ dates' = Append(dates, today + i)
                     /\ i' = i + 1
                     /\ pc' = IF i = Days THEN "render" ELSE "loop"
                     /\ UNCHANGED error
                ELSE /\ pc' = "crashed"
                     /\ error' = "model.predict raised"
                     /\ UNCHANGED <<preds, dates, i>>
    /\ UNCHANGED <<today, startDate, midnight, server, response, live_aqi, iaqi,
                   modelFile, manifestFile, model, feature_columns, resolved,
                   summary, netCalls, loadCalls>>

RECURSIVE SeqSum(_)
SeqSum(s) == IF s = <<>> THEN 0 ELSE Head(s) + SeqSum(Tail(s))

\* forecast_df, the charts, and avg / hi / lo
Render ==
    /\ pc = "render"
    /\ summary' = [avg |-> <<SeqSum(preds), Len(preds)>>,
                   hi |-> CHOOSE p \in Range(preds) : \A q \in Range(preds) : q <= p,
                   lo |-> CHOOSE p \in Range(preds) : \A q \in Range(preds) : p <= q]
    /\ pc' = "done"
    /\ UNCHANGED <<error, today, startDate, midnight, server, response, live_aqi, iaqi,
                   modelFile, manifestFile, model, feature_columns, resolved,
                   rng, i, calls, vals, dates, preds, netCalls, loadCalls,
                   rowsBuilt, predictCalls>>

Next ==
    \/ Tick
    \/ FetchLiveAqi
    \/ LiveAqiFallback
    \/ ModelMissing
    \/ LoadModel
    \/ ResolveFromManifest
    \/ ResolveFromModel
    \/ ResolveFatal
    \/ ForecastStep
    \/ Render

Spec == Init /\ [][Next]_vars

\* ======================================================================
\* Properties
\* ======================================================================
\* the single request of the run has been answered
Fetched == response.kind # "none"
\* status "ok" with a data object that carries an aqi value
OkWellFormed(resp) ==
    resp.kind = "object" /\ resp.status = "ok" /\ resp.data = "object" /\ resp.hasAqi
\* network exception, status other than "ok", or malformed body
FailedFetch(resp) == resp.kind # "none" /\ ~OkWellFormed(resp)
InLoopOrAfter == pc \in {"loop", "render", "done"}

\* The token groups and their declared ranges (in tenths), in dispatch order.
TokenGroups ==
    << [tokens |-> {<<"p","m","2">>}, low |-> 400, high |-> 1800],
       [tokens |-> {<<"p","m","1","0">>}, low |-> 500, high |-> 2500],
       [tokens |-> {<<"n","o","2">>}, low |-> 100, high |-> 1200],
       [tokens |-> {<<"o","3">>}, low |-> 100, high |-> 1000],
       [tokens |-> {<<"s","o","2">>}, low |-> 50, high |-> 800],
       [tokens |-> {<<"c","o">>}, low |-> 1, high |-> 40],
       [tokens |-> {<<"t","e","m","p">>, <<"t">>}, low |-> 100, high |-> 400],
       [tokens |-> {<<"h","u","m","i","d">>, <<"h">>}, low |-> 200, high |-> 800] >>
DefaultRange == <<0, 1000>>
MatchesGroup(c, g) == \E t \in TokenGroups[g].tokens : In(t, c)
MatchedGroups(c) == {g \in DOMAIN TokenGroups : MatchesGroup(c, g)}
FirstGroup(c) == CHOOSE g \in MatchedGroups(c) : \A h \in MatchedGroups(c) : g <= h

\* C1: every forecast point produced so far has the date "process start + its
\* position" (so the dates are consecutive and start at start date + 1), and
\* a run that leaves the loop has exactly 30 points.
C1_ConsecutiveDates ==
    /\ \A k \in 1..Len(dates) : dates[k] = startDate + k
    /\ pc \in {"render", "done"} => Len(dates) = Days /\ Len(preds) = Days

\* C2: every value sampled for the current row lies inside the declared range
\* of EVERY token its lower-cased name contains.
C2_InEveryTokenRange ==
    \A k \in 1..Len(calls) :
        \A g \in MatchedGroups(lower(calls[k].col)) :
            /\ TokenGroups[g].low <= calls[k].val
            /\ calls[k].val <= TokenGroups[g].high

\* C3: right after fetch_live_aqi returned for a well-formed "ok" response,
\* live_aqi is exactly the response's aqi and iaqi exactly its iaqi mapping
\* (the empty mapping when the response carries none).
C3_ExactReturn ==
    pc = "fallback" /\ OkWellFormed(response) =>
        /\ live_aqi = PyInt(response.aqi)
        /\ iaqi = IF response.hasIaqi THEN response.iaqi ELSE {}
C3_Witness ==
    /\ pc = "fallback"
    /\ OkWellFormed(response)
    /\ response.aqi = 42
    /\ response.hasIaqi
    /\ iaqi = {<<"pm25", 80>>, <<"o3", 12>>}

\* C4: after a failed fetch, fetch_live_aqi has returned (None, {}), the
\* caller then sets live_aqi to exactly 160, and the run is never halted by
\* the failure: it goes on to the model-loading step.
ModelStageErrors ==
    {"model file not found", "json.load raised",
     "could not determine model feature names", "model.predict raised"}
C4_FailedFetchFallsBack ==
    FailedFetch(response) =>
        /\ pc = "fallback" => live_aqi = None /\ iaqi = {}
        /\ pc \notin {"fetch", "fallback"} =>
              live_aqi = PyInt(160) /\ iaqi = {}
        /\ pc \in {"stopped", "crashed"} => error \in ModelStageErrors
        /\ pc \in {"features", "loop", "render", "done"} => loadCalls = 1
C4_Witness ==
    /\ FailedFetch(response)
    /\ response.kind = "object" /\ response.status = "ok" /\ ~response.hasAqi
    /\ live_aqi = PyInt(160)
    /\ pc = "done"

\* C5: after a successful fetch the live index used by the rest of the run
\* is the response's aqi value, whatever that value is.
C5_SuccessKeepsAqi ==
    pc \notin {"fetch", "fallback"} /\ OkWellFormed(response) =>
        live_aqi = PyInt(response.aqi)

\* C6: when the model file does not exist, the run never gets past the
\* existence check: nothing is deserialized, no feature list is resolved,
\* nothing is sampled, predicted or summarised, and the run ends stopped.
C6_MissingModelHalts ==
    ~modelFile.exists =>
        /\ pc \in {"fetch", "fallback", "checkmodel", "stopped"}
        /\ pc = "stopped" => error = "model file not found"
        /\ loadCalls = 0 /\ ~model.loaded
        /\ resolved = "none" /\ feature_columns = <<>>
        /\ rowsBuilt = 0 /\ calls = <<>> /\ vals = <<>>
        /\ predictCalls = 0
        /\ dates = <<>> /\ preds = <<>> /\ summary = <<>>
C6_Witness ==
    /\ ~modelFile.exists
    /\ manifestFile.exists
    /\ pc = "stopped"
    /\ netCalls = 1

\* C7: feature names come from the manifest when the file exists (the model
\* is then not introspected), from the model's recorded names when it does
\* not, and when neither is available the run stops with no forecast point.
C7_ResolutionChain ==
    /\ manifestFile.exists =>
          /\ resolved # "introspection"
          /\ InLoopOrAfter => resolved = "manifest"
          /\ resolved = "manifest" => feature_columns = manifestFile.cols
    /\ ~manifestFile.exists =>
          /\ resolved # "manifest"
          /\ InLoopOrAfter => resolved = "introspection"
          /\ resolved = "introspection" =>
                model.names # <<>> /\ feature_columns = model.names
    /\ ~manifestFile.exists /\ model.loaded /\ model.names = <<>> =>
          /\ pc \in {"features", "stopped"}
          /\ pc = "stopped" => error = "could not determine model feature names"
          /\ resolved = "none" /\ rowsBuilt = 0 /\ predictCalls = 0
          /\ dates = <<>> /\ preds = <<>>
C7_Witness ==
    /\ resolved = "manifest"
    /\ model.names # <<>>
    /\ feature_columns # model.names
    /\ feature_columns = manifestFile.cols
    /\ Len(preds) > 0

\* C8: one network request, then one model deserialization, then the
\* inference calls, one per day on a row built for that day, never repeated;
\* a completed run has made exactly 1, 1 and 30 of them.
C8_CallCounts ==
    /\ netCalls <= 1 /\ loadCalls <= 1
    /\ loadCalls = 1 => netCalls = 1
    /\ predictCalls > 0 => loadCalls = 1
    /\ rowsBuilt = predictCalls
    /\ predictCalls =
          Len(preds) + (IF error = "model.predict raised" THEN 1 ELSE 0)
    /\ InLoopOrAfter => predictCalls = i - 1
    /\ pc = "done" =>
          netCalls = 1 /\ loadCalls = 1 /\ predictCalls = Days /\ rowsBuilt = Days
C8_Witness ==
    /\ pc = "done"
    /\ predictCalls = Days
    /\ Len(preds) = Days

\* C9: whenever a row has been handed to a model that records its input
\* names, the row's feature names are exactly those names.
C9_RowMatchesModel ==
    predictCalls > 0 /\ model.names # <<>> => DOMAIN vals = Range(model.names)

\* the ranges the code samples from for the bare tokens and for a name
\* without any token
CodeRanges ==
    {UniformArgs(t) : t \in UNION {TokenGroups[g].tokens : g \in DOMAIN TokenGroups}}
    \cup {UniformArgs(<<"x">>)}

\* C10: every synthesize_value call samples from the range of the first
\* token group (in the fixed order) its lower-cased name matches, from the
\* default range exactly when it matches none, and returns a value of that
\* range; the eight groups and the default have nine different ranges.
C10_FirstMatchDispatch ==
    /\ Cardinality(CodeRanges) = Len(TokenGroups) + 1
    /\ \A k \in 1..Len(calls) :
          LET c == lower(calls[k].col)
              used == <<calls[k].low, calls[k].high>>
          IN /\ MatchedGroups(c) # {} =>
                   used = <<TokenGroups[FirstGroup(c)].low,
                            TokenGroups[FirstGroup(c)].high>>
             /\ used = DefaultRange <=> MatchedGroups(c) = {}
             /\ calls[k].low <= calls[k].val /\ calls[k].val < calls[k].high
C10_Witness ==
    /\ Len(calls) = Len(NamesC)
    /\ \E k \in 1..Len(calls) :
          /\ calls[k].col = <<"p","m","1","0","_","p","m","2","5">>
          /\ calls[k].low = 400
    /\ \E k \in 1..Len(calls) :
          /\ calls[k].col = <<"r","a","i","n">>
          /\ calls[k].low = 0 /\ calls[k].high = 1000
====
